---------------------------- MODULE Spec2Model ----------------------------
(***************************************************************************)
(* Coupon management service: the coupon store, the discount evaluators    *)
(* and the apply-coupon transaction of app/services/coupon_service.py,     *)
(* with the per-request session of app/db/database.py.                     *)
(*                                                                         *)
(* Money is an integer number of units of 1/1000 cent, so that a price in  *)
(* tenths of a cent times an integer percentage divided by 100 is exact.   *)
(* An Optional value is <<>> (None) or <<v>>.                              *)
(***************************************************************************)
EXTENDS Integers, Sequences, FiniteSets, TLC

VARIABLES coupons, next_id, now, last, applied, pc, sess

vars == <<coupons, next_id, now, last, applied, pc, sess>>

(***************************************************************************)
(* Bounds of the model                                                     *)
(***************************************************************************)
MaxCartLen == 2
MaxQty == 3
MaxLimit == 2
MaxTime == 2
MaxUses == 2
NumSessions == 2

(* timedelta(days=1), in clock ticks *)
Day == 1

(* round(x, 2): one cent, in money units *)
Cent == 1000

None == <<>>
Some(v) == <<v>>
IsNone(o) == o = <<>>
Val(o) == o[1]

SeqsUpTo(S, n) == UNION {[1..k -> S] : k \in 0..n}

Min(a, b) == IF a <= b THEN a ELSE b

(* dict.get(key, default) *)
Get(d, k, default) == IF k \in DOMAIN d THEN d[k] ELSE default

(* Python truthiness of an Optional[int]: None and 0 are falsy *)
TruthyInt(o) == ~IsNone(o) /\ Val(o) # 0

(* Python truthiness of an Optional[datetime]: only None is falsy *)
TruthyTime(o) == ~IsNone(o)

(* `coupon.repetition_limit or 1` *)
OrOne(o) == IF TruthyInt(o) THEN Val(o) ELSE 1

(* round(x, 2) on an exact amount: to the nearest cent, ties to the even cent *)
Round2(x) ==
    LET q == x \div Cent
        r == x % Cent
    IN  IF 2 * r < Cent THEN q * Cent
        ELSE IF 2 * r > Cent THEN (q + 1) * Cent
        ELSE IF q % 2 = 0 THEN q * Cent ELSE (q + 1) * Cent

(***************************************************************************)
(* The evaluators                                                          *)
(***************************************************************************)

(* cart_map = {item.product_id: item for item in cart.items}: a later line *)
(* with the same product_id replaces an earlier one                        *)
InCartMap(cart, pid) == \E i \in 1..Len(cart) : cart[i].product_id = pid

CartMap(cart, pid) ==
    LET idx == {i \in 1..Len(cart) : cart[i].product_id = pid}
    IN  cart[CHOOSE i \in idx : \A j \in idx : j <= i]

RECURSIVE _calculate_cart_total(_)
_calculate_cart_total(cart) ==
    IF cart = <<>> THEN 0
    ELSE Head(cart).price * Head(cart).quantity + _calculate_cart_total(Tail(cart))

(* mutant: a strict comparison *)
MeetsThresholdStrict(cart_total, threshold) == cart_total > threshold

MeetsThreshold(cart_total, threshold) == cart_total >= threshold

_calculate_cart_wise_discount(cart, details) ==
    LET threshold == Get(details, "threshold", 0)
        discount_percent == Get(details, "discount", 0)
        cart_total == _calculate_cart_total(cart)
    IN  IF MeetsThreshold(cart_total, threshold)
        THEN (cart_total * discount_percent) \div 100
        ELSE 0

_calculate_product_wise_discount(cart, details) ==
    LET product_id == Get(details, "product_id", 0)
        discount_percent == Get(details, "discount", 0)
    IN  IF InCartMap(cart, product_id)
        THEN (CartMap(cart, product_id).price
                * CartMap(cart, product_id).quantity * discount_percent) \div 100
        ELSE 0

(* the loop over buy_products: total_buy_sets *)
RECURSIVE TotalBuySets(_, _)
TotalBuySets(cart, buy_products) ==
    IF buy_products = <<>> THEN 0
    ELSE LET buy_prod == Head(buy_products)
             sets_from_this_product ==
                 IF InCartMap(cart, buy_prod.product_id)
                 THEN CartMap(cart, buy_prod.product_id).quantity \div buy_prod.quantity
                 ELSE 0
         IN  sets_from_this_product + TotalBuySets(cart, Tail(buy_products))

(* mutant: the repetition limit is not applied *)
ApplicableTimesUnlimited(total_buy_sets, repetition_limit) == total_buy_sets

ApplicableTimes(total_buy_sets, repetition_limit) == Min(total_buy_sets, repetition_limit)

(* one pass of the loop over get_products in the preview evaluator *)
GetProdDiscount(cart, get_prod, applicable_times) ==
    IF InCartMap(cart, get_prod.product_id)
    THEN LET cart_item == CartMap(cart, get_prod.product_id)
             total_free_qty == get_prod.quantity * applicable_times
             actual_free_qty == Min(total_free_qty, cart_item.quantity)
         IN  cart_item.price * actual_free_qty
    ELSE 0

RECURSIVE GetProductsDiscount(_, _, _)
GetProductsDiscount(cart, get_products, applicable_times) ==
    IF get_products = <<>> THEN 0
    ELSE GetProdDiscount(cart, Head(get_products), applicable_times)
           + GetProductsDiscount(cart, Tail(get_products), applicable_times)

_calculate_bxgy_discount(cart, details, repetition_limit) ==
    LET buy_products == Get(details, "buy_products", <<>>)
        get_products == Get(details, "get_products", <<>>)
        total_buy_sets == TotalBuySets(cart, buy_products)
    IN  IF total_buy_sets = 0 THEN 0
        ELSE GetProductsDiscount(cart, get_products,
                                 ApplicableTimes(total_buy_sets, repetition_limit))

(* _is_coupon_valid: active, not expired, usage limit not reached *)
LimitReached(repetition_limit, times_used) ==
    TruthyInt(repetition_limit) /\ times_used >= Val(repetition_limit)

_is_coupon_valid(coupon, utcnow) ==
    IF ~coupon.is_active THEN FALSE
    ELSE IF TruthyTime(coupon.expires_at) /\ Val(coupon.expires_at) < utcnow THEN FALSE
    ELSE IF LimitReached(coupon.repetition_limit, coupon.times_used) THEN FALSE
    ELSE TRUE

(***************************************************************************)
(* apply_coupon: the pricing stage (after the usage counter was flushed)   *)
(***************************************************************************)

(* mutant: the quotient is cut to whole cents instead of rounded *)
RoundRatioTruncated(num, den) == (num \div (den * Cent)) * Cent

(* round((num / den) * 1, 2) for the exact quotient num / den, den > 0 *)
RoundRatio(num, den) ==
    LET q == num \div (den * Cent)
        r == num % (den * Cent)
    IN  IF 2 * r < den * Cent THEN q * Cent
        ELSE IF 2 * r > den * Cent THEN (q + 1) * Cent
        ELSE IF q % 2 = 0 THEN q * Cent ELSE (q + 1) * Cent

UpdatedCartItem(item, quantity, total_discount) ==
    [product_id |-> item.product_id, quantity |-> quantity,
     price |-> item.price, total_discount |-> total_discount]

Rejected(detail) == [status |-> detail]

(* the item discount of the product-wise branch, before rounding *)
ProductWiseItemDiscount(item, product_id, discount_percent) ==
    IF item.product_id = product_id
    THEN (item.price * item.quantity * discount_percent) \div 100
    ELSE 0

(* total_discount = item_discount is assigned at every matching line: the  *)
(* last matching line's discount remains                                   *)
RECURSIVE ProductWiseTotal(_, _, _, _)
ProductWiseTotal(cart, product_id, discount_percent, total_discount) ==
    IF cart = <<>> THEN total_discount
    ELSE ProductWiseTotal(Tail(cart), product_id, discount_percent,
            IF Head(cart).product_id = product_id
            THEN ProductWiseItemDiscount(Head(cart), product_id, discount_percent)
            ELSE total_discount)

(* free_quantities[prod_id] = total_free_qty: a later get_products entry   *)
(* for the same product replaces an earlier one                            *)
InFreeQuantities(get_products, pid) ==
    \E i \in 1..Len(get_products) : get_products[i].product_id = pid

FreeQuantities(get_products, applicable_times, pid) ==
    LET idx == {i \in 1..Len(get_products) : get_products[i].product_id = pid}
        k == CHOOSE i \in idx : \A j \in idx : j <= i
    IN  get_products[k].quantity * applicable_times

(* the free quantity a cart line receives in the bxgy branch *)
BxgyFreeQty(item, get_products, applicable_times) ==
    IF InFreeQuantities(get_products, item.product_id)
    THEN FreeQuantities(get_products, applicable_times, item.product_id)
    ELSE 0

BxgyUpdatedItems(cart, get_products, applicable_times) ==
    [i \in 1..Len(cart) |->
        LET free_qty == BxgyFreeQty(cart[i], get_products, applicable_times)
        IN  UpdatedCartItem(cart[i], cart[i].quantity + free_qty,
                            Round2(cart[i].price * free_qty))]

RECURSIVE BxgyTotalDiscount(_, _, _)
BxgyTotalDiscount(cart, get_products, applicable_times) ==
    IF cart = <<>> THEN 0
    ELSE Head(cart).price * BxgyFreeQty(Head(cart), get_products, applicable_times)
           + BxgyTotalDiscount(Tail(cart), get_products, applicable_times)

(* mutant: the final price is taken from the rounded totals *)
FinalPriceOfRounded(cart_total, total_discount) ==
    Round2(cart_total) - Round2(total_discount)

(* final_price = cart_total - total_discount, rounded when returned *)
FinalPrice(cart_total, total_discount) == Round2(cart_total - total_discount)

UpdatedCart(updated_items, cart_total, total_discount) ==
    [status |-> "ok",
     items |-> updated_items,
     total_price |-> Round2(cart_total),
     total_discount |-> Round2(total_discount),
     final_price |-> FinalPrice(cart_total, total_discount),
     raw_total |-> cart_total,
     raw_discount |-> total_discount]

(* mutant: the totals of a bxgy cart are taken from the input cart *)
TotalsBaseOriginal(type, cart, updated_items) == _calculate_cart_total(cart)

(* cart_total of the returned cart: for bxgy over the updated items *)
TotalsBase(type, cart, updated_items) ==
    IF type = "bxgy" THEN _calculate_cart_total(updated_items)
    ELSE _calculate_cart_total(cart)

PriceCartWise(coupon, cart) ==
    LET total_discount == _calculate_cart_wise_discount(cart, coupon.details)
        cart_total == _calculate_cart_total(cart)
        updated_items ==
            [i \in 1..Len(cart) |->
                UpdatedCartItem(cart[i], cart[i].quantity,
                    RoundRatio(cart[i].price * cart[i].quantity * total_discount,
                               cart_total))]
    IN  IF total_discount = 0
        THEN Rejected("Cart does not meet coupon conditions")
        ELSE UpdatedCart(updated_items,
                         TotalsBase(coupon.type, cart, updated_items), total_discount)

PriceProductWise(coupon, cart) ==
    LET product_id == Get(coupon.details, "product_id", 0)
        discount_percent == Get(coupon.details, "discount", 0)
        updated_items ==
            [i \in 1..Len(cart) |->
                UpdatedCartItem(cart[i], cart[i].quantity,
                    Round2(ProductWiseItemDiscount(cart[i], product_id, discount_percent)))]
    IN  IF ~InCartMap(cart, product_id)
        THEN Rejected("Product not found in cart")
        ELSE UpdatedCart(updated_items,
                         TotalsBase(coupon.type, cart, updated_items),
                         ProductWiseTotal(cart, product_id, discount_percent, 0))

PriceBxgy(coupon, cart) ==
    LET buy_products == Get(coupon.details, "buy_products", <<>>)
        get_products == Get(coupon.details, "get_products", <<>>)
        repetition_limit == OrOne(coupon.repetition_limit)
        total_buy_sets == TotalBuySets(cart, buy_products)
        applicable_times == ApplicableTimes(total_buy_sets, repetition_limit)
        updated_items == BxgyUpdatedItems(cart, get_products, applicable_times)
    IN  IF total_buy_sets = 0
        THEN Rejected("Buy products not found in cart")
        ELSE UpdatedCart(updated_items,
                         TotalsBase(coupon.type, cart, updated_items),
                         BxgyTotalDiscount(cart, get_products, applicable_times))

ApplyPricing(coupon, cart) ==
    IF coupon.type = "cart-wise" THEN PriceCartWise(coupon, cart)
    ELSE IF coupon.type = "product-wise" THEN PriceProductWise(coupon, cart)
    ELSE PriceBxgy(coupon, cart)

(***************************************************************************)
(* Inputs: carts and coupon details                                        *)
(***************************************************************************)
CartProducts == {1, 2, 3}
PriceOf(p) == CASE p = 1 -> 2 * Cent [] p = 2 -> 700 [] OTHER -> Cent
InlinePrice == 3 * Cent

Lines == {[product_id |-> p, quantity |-> q, price |-> PriceOf(p)] :
            p \in CartProducts, q \in 1..MaxQty}
Carts == SeqsUpTo(Lines, MaxCartLen)

Buy(p, q) == [product_id |-> p, quantity |-> q]
Free(p, q, price) == [product_id |-> p, quantity |-> q, price |-> price]
BuyLists == {<<>>, <<Buy(1, 2)>>, <<Buy(1, 2), Buy(3, 1)>>, <<Buy(3, 1), Buy(3, 1)>>}
GetLists == {<<>>,
             <<Free(3, 1, None)>>,
             <<Free(3, 2, Some(InlinePrice))>>,
             <<Free(4, 1, Some(InlinePrice))>>,
             <<Free(3, 1, None), Free(4, 1, Some(InlinePrice))>>,
             <<Free(3, 1, None), Free(3, 2, Some(InlinePrice))>>,
             <<Free(3, 2, Some(InlinePrice)), Free(3, 1, None)>>}
BxgyDetails == {[buy_products |-> b, get_products |-> g] : b \in BuyLists, g \in GetLists}
CartWiseDetails == {[threshold |-> t, discount |-> d] :
                      t \in {700, 4 * Cent}, d \in {10, 50}} \cup {[discount |-> 10]}
ProductWiseDetails == {[product_id |-> p, discount |-> d] : p \in {2, 3, 4}, d \in {10, 50}}

Times == 0..MaxTime
OptTimes == {None} \cup {Some(t) : t \in Times}
OptLimits == {None} \cup {Some(n) : n \in 0..MaxLimit}

NoCoupons == [i \in {} |-> None]

(* the ids the store hands out *)
CouponIds == {1, 2}

(***************************************************************************)
(* The session of a request (get_db) and the store                         *)
(***************************************************************************)

(* mutant: the session commits whether or not the handler raised *)
GetDbAlwaysCommits(raised, committed, flushed) == flushed

(* get_db: commit when the handler returned, rollback when it raised *)
GetDbExit(raised, committed, flushed) == IF raised THEN committed ELSE flushed

(* mutant: the usage counter is not incremented *)
IncrementUsageMissing(coupon) == coupon

(* coupon.times_used += 1 *)
IncrementUsage(coupon) == [coupon EXCEPT !.times_used = @ + 1]

(* details.pop('repition_limit', 1) *)
PopLimit(details) == Get(details, "repition_limit", 1)
WithoutLimit(details) == [k \in DOMAIN details \ {"repition_limit"} |-> details[k]]

Idle == [op |-> "none"]

(***************************************************************************)
(* apply_coupon, the whole request: lookup, validity, increment and flush, *)
(* pricing, then the session's commit or rollback                          *)
(***************************************************************************)
ApplyResponse(coupon_id, cart) ==
    IF coupon_id \notin DOMAIN coupons THEN Rejected("Coupon not found")
    ELSE IF ~_is_coupon_valid(coupons[coupon_id], now)
         THEN Rejected("Coupon is not valid or has expired")
         ELSE ApplyPricing(IncrementUsage(coupons[coupon_id]), cart)

ApplyFlushed(coupon_id) ==
    IF coupon_id \in DOMAIN coupons /\ _is_coupon_valid(coupons[coupon_id], now)
    THEN [coupons EXCEPT ![coupon_id] = IncrementUsage(@)]
    ELSE coupons

ApplyCoupon(coupon_id, cart) ==
    LET resp == ApplyResponse(coupon_id, cart)
    IN  /\ coupons' = GetDbExit(resp.status # "ok", coupons, ApplyFlushed(coupon_id))
        /\ applied' = IF resp.status = "ok"
                       THEN [applied EXCEPT ![coupon_id] = @ + 1]
                       ELSE applied
        /\ last' = [op |-> "apply", coupon_id |-> coupon_id, cart |-> cart,
                    before |-> IF coupon_id \in DOMAIN coupons
                               THEN Some(coupons[coupon_id]) ELSE None,
                    resp |-> resp]
        /\ UNCHANGED <<next_id, now, pc, sess>>

NewCoupon(id, code, type, details, expires_at, repetition_limit) ==
    [id |-> id, code |-> code, type |-> type, details |-> details,
     expires_at |-> expires_at, is_active |-> TRUE,
     repetition_limit |-> repetition_limit, times_used |-> 0]

(***************************************************************************)
(* create_coupon, update_coupon, delete_coupon, get_applicable_coupons     *)
(***************************************************************************)
CodeExists(code, except_id) ==
    \E i \in DOMAIN coupons : i # except_id /\ coupons[i].code = code

(* str.lower() on the codes of the model *)
Lower(code) == IF code = "SAVE10" THEN "save10" ELSE code

(* get_coupon_by_code: the rows that Coupon.code.ilike(code) matches *)
get_coupon_by_code(code) ==
    {i \in DOMAIN coupons : Lower(coupons[i].code) = Lower(code)}

(* expires_at, or one day from now when it is not given *)
DefaultExpiry(expires_at) == IF IsNone(expires_at) THEN Some(now + Day) ELSE expires_at

CreateCoupon(code, type, details, expires_at) ==
    /\ next_id \in CouponIds
    /\ IF CodeExists(code, 0)
       THEN /\ last' = [op |-> "create", status |-> "Coupon code already exists"]
            /\ UNCHANGED <<coupons, next_id, applied>>
       ELSE /\ coupons' = coupons @@ (next_id :>
                  NewCoupon(next_id, code, type,
                            IF type = "bxgy" THEN WithoutLimit(details) ELSE details,
                            DefaultExpiry(expires_at),
                            IF type = "bxgy" THEN Some(PopLimit(details)) ELSE None))
            /\ next_id' = next_id + 1
            /\ applied' = applied @@ (next_id :> 0)
            /\ last' = [op |-> "create", status |-> "ok", coupon_id |-> next_id]
    /\ UNCHANGED <<now, pc, sess>>

(* update_data after the extraction of repition_limit from the details *)
WithExtractedLimit(coupon, update_data) ==
    IF "details" \in DOMAIN update_data /\ update_data.details # <<>>
    THEN IF coupon.type = "bxgy"
         THEN [update_data EXCEPT !.details = WithoutLimit(@)]
                @@ [repetition_limit |-> Some(PopLimit(update_data.details))]
         ELSE update_data @@ [repetition_limit |-> None]
    ELSE update_data

(* for field, value in update_data.items(): setattr(coupon, field, value) *)
SetAttrs(coupon, update_data) ==
    [f \in DOMAIN coupon |-> IF f \in DOMAIN update_data THEN update_data[f] ELSE coupon[f]]

UpdateCoupon(coupon_id, update_data) ==
    /\ IF coupon_id \notin DOMAIN coupons
       THEN /\ last' = [op |-> "update", coupon_id |-> coupon_id,
                        status |-> "Coupon not found"]
            /\ UNCHANGED coupons
       ELSE IF "code" \in DOMAIN update_data /\ CodeExists(update_data.code, coupon_id)
       THEN /\ last' = [op |-> "update", coupon_id |-> coupon_id,
                        status |-> "Coupon code already exists"]
            /\ UNCHANGED coupons
       ELSE /\ coupons' = [coupons EXCEPT ![coupon_id] =
                              SetAttrs(@, WithExtractedLimit(@, update_data))]
            /\ last' = [op |-> "update", coupon_id |-> coupon_id,
                        status |-> "ok"]
    /\ UNCHANGED <<next_id, now, applied, pc, sess>>

DeleteCoupon(coupon_id) ==
    /\ IF coupon_id \notin DOMAIN coupons
       THEN /\ last' = [op |-> "delete", coupon_id |-> coupon_id,
                        status |-> "Coupon not found"]
            /\ UNCHANGED <<coupons, applied>>
       ELSE /\ coupons' = [i \in DOMAIN coupons \ {coupon_id} |-> coupons[i]]
            /\ applied' = [i \in DOMAIN applied \ {coupon_id} |-> applied[i]]
            /\ last' = [op |-> "delete", coupon_id |-> coupon_id, status |-> "ok"]
    /\ UNCHANGED <<next_id, now, pc, sess>>

(* the discount of one coupon for a cart, by coupon type *)
PreviewDiscount(coupon, cart) ==
    IF coupon.type = "cart-wise"
    THEN _calculate_cart_wise_discount(cart, coupon.details)
    ELSE IF coupon.type = "product-wise"
    THEN _calculate_product_wise_discount(cart, coupon.details)
    ELSE _calculate_bxgy_discount(cart, coupon.details, OrOne(coupon.repetition_limit))

(* mutant: the loop does not skip the coupons that are not valid *)
RECURSIVE ApplicableUnchecked(_, _)
ApplicableUnchecked(ids, cart) ==
    IF ids = {} THEN <<>>
    ELSE LET i == CHOOSE j \in ids : \A k \in ids : j <= k
             coupon == coupons[i]
             rest == ApplicableUnchecked(ids \ {i}, cart)
         IN  IF PreviewDiscount(coupon, cart) > 0
             THEN <<[coupon_id |-> coupon.id, type |-> coupon.type,
                     discount |-> Round2(PreviewDiscount(coupon, cart))]>> \o rest
             ELSE rest

(* the loop over db.query(Coupon).all(), in the order of the ids *)
RECURSIVE Applicable(_, _)
Applicable(ids, cart) ==
    IF ids = {} THEN <<>>
    ELSE LET i == CHOOSE j \in ids : \A k \in ids : j <= k
             coupon == coupons[i]
             rest == Applicable(ids \ {i}, cart)
         IN  IF ~_is_coupon_valid(coupon, now) THEN rest
             ELSE IF PreviewDiscount(coupon, cart) > 0
                  THEN <<[coupon_id |-> coupon.id, type |-> coupon.type,
                          discount |-> Round2(PreviewDiscount(coupon, cart))]>> \o rest
                  ELSE rest

GetApplicableCoupons(cart) ==
    /\ last' = [op |-> "preview", cart |-> cart, at |-> now,
                applicable |-> Applicable(DOMAIN coupons, cart)]
    /\ UNCHANGED <<coupons, next_id, now, applied, pc, sess>>

(***************************************************************************)
(* CalcSpec: one evaluation of one evaluator, or one apply request, on     *)
(* inputs drawn in the initial state                                       *)
(***************************************************************************)
ValidityCoupons ==
    {[NewCoupon(1, "SAVE10", "bxgy", <<>>, e, l)
        EXCEPT !.is_active = a, !.times_used = u] :
        a \in BOOLEAN, e \in OptTimes, l \in OptLimits, u \in 0..(MaxLimit + 1)}

PricedCoupons ==
    {NewCoupon(1, "SAVE10", "cart-wise", d, None, None) : d \in CartWiseDetails}
    \cup {NewCoupon(1, "SAVE10", "product-wise", d, None, None) : d \in ProductWiseDetails}
    \cup {NewCoupon(1, "SAVE10", "bxgy", d, None, Some(l)) :
             d \in BxgyDetails, l \in 0..MaxLimit}

Sessions == 1..NumSessions

(* the request drawn in the initial state *)
CalcRequest(r) ==
    \/ \E c \in ValidityCoupons, t \in Times :
          r = [op |-> "valid?", coupon |-> c, utcnow |-> t]
    \/ \E c \in Carts, d \in CartWiseDetails :
          r = [op |-> "cart-wise?", cart |-> c, details |-> d]
    \/ \E c \in Carts, d \in ProductWiseDetails :
          r = [op |-> "product-wise?", cart |-> c, details |-> d]
    \/ \E c \in Carts, d \in BxgyDetails, l \in 1..(MaxLimit + 1) :
          r = [op |-> "bxgy?", cart |-> c, details |-> d, repetition_limit |-> l]
    \/ \E c \in Carts, k \in PricedCoupons :
          r = [op |-> "apply?", cart |-> c, coupon |-> k]

CalcInit ==
    /\ CalcRequest(last)
    /\ coupons = IF last.op = "apply?" THEN (1 :> last.coupon) ELSE NoCoupons
    /\ applied = IF last.op = "apply?" THEN (1 :> 0) ELSE NoCoupons
    /\ next_id = IF last.op = "apply?" THEN 2 ELSE 1
    /\ now = 0
    /\ pc = [s \in Sessions |-> "idle"]
    /\ sess = [s \in Sessions |-> Idle]

EvalValid ==
    /\ last.op = "valid?"
    /\ last' = [op |-> "valid", coupon |-> last.coupon, utcnow |-> last.utcnow,
                result |-> _is_coupon_valid(last.coupon, last.utcnow)]
    /\ UNCHANGED <<coupons, next_id, now, applied, pc, sess>>

EvalCartWise ==
    /\ last.op = "cart-wise?"
    /\ last' = [op |-> "cart-wise", cart |-> last.cart, details |-> last.details,
                result |-> _calculate_cart_wise_discount(last.cart, last.details)]
    /\ UNCHANGED <<coupons, next_id, now, applied, pc, sess>>

EvalProductWise ==
    /\ last.op = "product-wise?"
    /\ last' = [op |-> "product-wise", cart |-> last.cart, details |-> last.details,
                result |-> _calculate_product_wise_discount(last.cart, last.details)]
    /\ UNCHANGED <<coupons, next_id, now, applied, pc, sess>>

EvalBxgy ==
    /\ last.op = "bxgy?"
    /\ last' = [op |-> "bxgy", cart |-> last.cart, details |-> last.details,
                repetition_limit |-> last.repetition_limit,
                result |-> _calculate_bxgy_discount(last.cart, last.details,
                                                    last.repetition_limit)]
    /\ UNCHANGED <<coupons, next_id, now, applied, pc, sess>>

EvalApply ==
    /\ last.op = "apply?"
    /\ ApplyCoupon(1, last.cart)

CalcNext == EvalValid \/ EvalCartWise \/ EvalProductWise \/ EvalBxgy \/ EvalApply

CalcSpec == CalcInit /\ [][CalcNext]_vars

(***************************************************************************)
(* Spec: the service handling one request at a time                        *)
(***************************************************************************)
Line(p, q) == [product_id |-> p, quantity |-> q, price |-> PriceOf(p)]
SpecCarts == {<<Line(2, 1)>>, <<Line(1, 2), Line(3, 1)>>}

SpecBxgy == [buy_products |-> <<Buy(1, 2)>>, get_products |-> <<Free(3, 1, None)>>]
SpecCodes == {"SAVE10", "save10"}
SpecCreates ==
    {[type |-> "cart-wise", details |-> [threshold |-> 4 * Cent, discount |-> 10]],
     [type |-> "product-wise", details |-> [product_id |-> 3, discount |-> 50]],
     [type |-> "bxgy", details |-> SpecBxgy],
     [type |-> "bxgy", details |-> SpecBxgy @@ [repition_limit |-> MaxLimit]]}
SpecUpdates ==
    {[is_active |-> FALSE],
     [code |-> "save10"],
     [type |-> "cart-wise"],
     [details |-> SpecBxgy],
     [details |-> <<>>],
     [type |-> "bxgy", details |-> SpecBxgy @@ [repition_limit |-> MaxLimit]]}
Init ==
    /\ coupons = NoCoupons
    /\ applied = NoCoupons
    /\ next_id = 1
    /\ now = 0
    /\ last = Idle
    /\ pc = [s \in Sessions |-> "idle"]
    /\ sess = [s \in Sessions |-> Idle]

Create ==
    \E code \in SpecCodes, c \in SpecCreates :
        CreateCoupon(code, c.type, c.details, None)

Update == \E i \in CouponIds, u \in SpecUpdates : UpdateCoupon(i, u)

Delete == \E i \in CouponIds : DeleteCoupon(i)

Preview == \E cart \in SpecCarts : GetApplicableCoupons(cart)

Apply ==
    \E i \in CouponIds, cart \in SpecCarts :
        /\ i \in DOMAIN coupons => coupons[i].times_used < MaxUses
        /\ ApplyCoupon(i, cart)

Next == Create \/ Update \/ Delete \/ Preview \/ Apply

Spec == Init /\ [][Next]_vars

(***************************************************************************)
(* TimedSpec: the same requests, with the clock that datetime.utcnow()     *)
(* reads advancing between them                                            *)
(***************************************************************************)
Tick ==
    /\ now < MaxTime
    /\ now' = now + 1
    /\ UNCHANGED <<coupons, next_id, last, applied, pc, sess>>

TimedCreates ==
    SpecCreates \cup {[type |-> "bxgy", details |-> SpecBxgy @@ [repition_limit |-> 0]]}

TimedCreate ==
    \E code \in SpecCodes, c \in TimedCreates :
        CreateCoupon(code, c.type, c.details, None)

Deactivate == \E i \in CouponIds : UpdateCoupon(i, [is_active |-> FALSE])

TimedNext == TimedCreate \/ Deactivate \/ Preview \/ Apply \/ Tick

TimedSpec == Init /\ [][TimedNext]_vars

(***************************************************************************)
(* ConcSpec: apply_coupon requests running concurrently, each in its own   *)
(* session (get_db).  A request reads the coupon row, checks and           *)
(* increments its own copy, flushes (an UPDATE of times_used to the        *)
(* copy's value, which takes the row lock and waits while another          *)
(* session's uncommitted UPDATE holds it), prices the cart, and the        *)
(* session commits or rolls back.                                          *)
(***************************************************************************)
ConcCreates ==
    {SpecBxgy @@ [repition_limit |-> l] : l \in 0..MaxLimit}

ConcCreate == \E d \in ConcCreates : CreateCoupon("SAVE10", "bxgy", d, None)

(* db.query(Coupon).filter(Coupon.id == coupon_id).first(), the validity   *)
(* check and coupon.times_used += 1 on the session's copy                  *)
ApplyRead(s, coupon_id, cart) ==
    /\ pc[s] = "idle"
    /\ coupon_id \in DOMAIN coupons => coupons[coupon_id].times_used < MaxUses
    /\ IF coupon_id \in DOMAIN coupons /\ _is_coupon_valid(coupons[coupon_id], now)
       THEN /\ pc' = [pc EXCEPT ![s] = "flush"]
            /\ sess' = [sess EXCEPT ![s] =
                   [op |-> "apply", coupon_id |-> coupon_id, cart |-> cart,
                    before |-> coupons[coupon_id],
                    coupon |-> IncrementUsage(coupons[coupon_id])]]
            /\ UNCHANGED last
       ELSE /\ last' = [op |-> "apply", coupon_id |-> coupon_id, cart |-> cart,
                        before |-> IF coupon_id \in DOMAIN coupons
                                   THEN Some(coupons[coupon_id]) ELSE None,
                        resp |-> ApplyResponse(coupon_id, cart)]
            /\ UNCHANGED <<pc, sess>>
    /\ UNCHANGED <<coupons, next_id, now, applied>>

(* the row lock of a coupon is held by a session with a flushed UPDATE *)
RowLocked(coupon_id) ==
    \E t \in Sessions : pc[t] = "exit" /\ sess[t].coupon_id = coupon_id

(* db.flush() *)
ApplyFlush(s) ==
    /\ pc[s] = "flush"
    /\ ~RowLocked(sess[s].coupon_id)
    /\ pc' = [pc EXCEPT ![s] = "exit"]
    /\ UNCHANGED <<coupons, next_id, now, last, applied, sess>>

(* the pricing, then get_db's commit or rollback *)
ApplyExit(s) ==
    /\ pc[s] = "exit"
    /\ LET resp == ApplyPricing(sess[s].coupon, sess[s].cart)
           i == sess[s].coupon_id
       IN  /\ coupons' = GetDbExit(resp.status # "ok", coupons,
                  [coupons EXCEPT ![i].times_used = sess[s].coupon.times_used])
           /\ applied' = IF resp.status = "ok"
                          THEN [applied EXCEPT ![i] = @ + 1] ELSE applied
           /\ last' = [op |-> "apply", coupon_id |-> i, cart |-> sess[s].cart,
                       before |-> Some(sess[s].before), resp |-> resp]
    /\ pc' = [pc EXCEPT ![s] = "idle"]
    /\ sess' = [sess EXCEPT ![s] = Idle]
    /\ UNCHANGED <<next_id, now>>

ConcApply ==
    \E s \in Sessions :
        \/ \E i \in CouponIds, cart \in SpecCarts : ApplyRead(s, i, cart)
        \/ ApplyFlush(s)
        \/ ApplyExit(s)

ConcNext == ConcCreate \/ ConcApply

ConcSpec == Init /\ [][ConcNext]_vars

(***************************************************************************)
(* Properties of the store                                                 *)
(***************************************************************************)

(* C1: under any interleaving of concurrent apply_coupon requests on the   *)
(* same coupon, a coupon with a non-null repetition_limit never reaches a  *)
(* committed state with times_used > repetition_limit.                     *)
C1_UsageWithinLimit ==
    \A i \in DOMAIN coupons :
        ~IsNone(coupons[i].repetition_limit) =>
            coupons[i].times_used <= Val(coupons[i].repetition_limit)

(* the same for the coupons whose limit is not 0 *)
UsageWithinPositiveLimit ==
    \A i \in DOMAIN coupons :
        TruthyInt(coupons[i].repetition_limit) =>
            coupons[i].times_used <= Val(coupons[i].repetition_limit)

PricingRejections ==
    {"Cart does not meet coupon conditions", "Product not found in cart",
     "Buy products not found in cart"}

(* C2: a rejected apply_coupon request (coupon not found, coupon invalid,  *)
(* or a rejection raised by the pricing after the usage counter was        *)
(* incremented and flushed) leaves the stored coupons as they were.        *)
C2_RejectedApplyChangesNothing ==
    [][(last'.op = "apply" /\ last'.resp.status # "ok") => coupons' = coupons]_vars

(* C2 witness: a valid coupon was rejected by the pricing, after the       *)
(* increment, and its stored usage counter is the one from before          *)
C2_Witness ==
    /\ last.op = "apply"
    /\ last.resp.status \in PricingRejections
    /\ last.coupon_id \in DOMAIN coupons
    /\ _is_coupon_valid(Val(last.before), now)
    /\ coupons[last.coupon_id] = Val(last.before)

(* C3: in a sequential history each coupon's times_used is the number of   *)
(* apply_coupon requests on it that succeeded: 0 at creation, one more     *)
(* after each successful apply, unchanged by every other request.          *)
C3_UsageCountsSuccessfulApplies ==
    \A i \in DOMAIN coupons : coupons[i].times_used = applied[i]

(* C3 witness: a coupon applied twice and then updated still counts two uses *)
C3_Witness ==
    /\ last.op = "update"
    /\ last.status = "ok"
    /\ last.coupon_id \in DOMAIN coupons
    /\ coupons[last.coupon_id].times_used = 2
    /\ applied[last.coupon_id] = 2

(***************************************************************************)
(* Properties of the evaluators (CalcSpec)                                 *)
(***************************************************************************)
RECURSIVE SumOver(_, _)
SumOver(S, f) ==
    IF S = {} THEN 0
    ELSE LET x == CHOOSE y \in S : TRUE IN f[x] + SumOver(S \ {x}, f)

(* sum of price * quantity over the lines of a cart *)
LineSum(lines) ==
    SumOver(1..Len(lines), [i \in 1..Len(lines) |-> lines[i].price * lines[i].quantity])

(* C4 as stated: the validity predicate of the specification *)
StatedValid(coupon, utcnow) ==
    /\ coupon.is_active
    /\ (IsNone(coupon.expires_at) \/ Val(coupon.expires_at) >= utcnow)
    /\ (IsNone(coupon.repetition_limit)
          \/ coupon.times_used < Val(coupon.repetition_limit))

(* C4: _is_coupon_valid returns true iff the coupon is active, not expired *)
(* (expires_at null or >= now) and not exhausted (repetition_limit null or *)
(* times_used < repetition_limit), for every combination of field values.  *)
C4_ValidIffStated ==
    last.op = "valid" => (last.result <=> StatedValid(last.coupon, last.utcnow))

(* total_buy_sets as stated: floor(cart quantity / required quantity),     *)
(* added over the buy_products entries whose product is in the cart        *)
StatedBuySets(cart, buy_products) ==
    LET present == {i \in 1..Len(buy_products) :
                      InCartMap(cart, buy_products[i].product_id)}
    IN  SumOver(present,
                [i \in present |->
                    CartMap(cart, buy_products[i].product_id).quantity
                      \div buy_products[i].quantity])

StatedTimes(cart, details, repetition_limit) ==
    Min(StatedBuySets(cart, details.buy_products), repetition_limit)

(* the capped credit of the get_products entries present in the cart *)
StatedInCartCredit(cart, get_products, times) ==
    LET present == {i \in 1..Len(get_products) :
                      InCartMap(cart, get_products[i].product_id)}
    IN  SumOver(present,
                [i \in present |->
                    CartMap(cart, get_products[i].product_id).price
                      * Min(get_products[i].quantity * times,
                            CartMap(cart, get_products[i].product_id).quantity)])

StatedInlineCredit(cart, get_products, times) ==
    LET absent == {i \in 1..Len(get_products) :
                     /\ ~InCartMap(cart, get_products[i].product_id)
                     /\ ~IsNone(get_products[i].price)}
    IN  SumOver(absent,
                [i \in absent |->
                    Val(get_products[i].price) * get_products[i].quantity * times])

(* C6: in preview, a get_products entry absent from the cart that carries  *)
(* an inline price adds inline_price * entry.quantity * applicable_times,  *)
(* uncapped; an entry in the cart is valued at the cart price and capped   *)
(* at the cart quantity.                                                   *)
C6_InlinePriceFallback ==
    (last.op = "bxgy" /\ StatedBuySets(last.cart, last.details.buy_products) > 0) =>
        LET times == StatedTimes(last.cart, last.details, last.repetition_limit)
        IN  last.result =
                StatedInCartCredit(last.cart, last.details.get_products, times)
                  + StatedInlineCredit(last.cart, last.details.get_products, times)

(* C10: the cart-wise discount is cart_total * discount / 100 when         *)
(* cart_total >= threshold (equality qualifies) and 0 when cart_total <    *)
(* threshold, the empty cart included.                                     *)
C10_CartWiseThreshold ==
    last.op = "cart-wise" =>
        LET cart_total == LineSum(last.cart)
            threshold == Get(last.details, "threshold", 0)
        IN  IF cart_total >= threshold
            THEN last.result * 100 = cart_total * last.details.discount
            ELSE last.result = 0

(* C10 witness: a cart whose total is exactly the threshold gets the discount *)
C10_Witness ==
    /\ last.op = "cart-wise"
    /\ "threshold" \in DOMAIN last.details
    /\ LineSum(last.cart) = last.details.threshold
    /\ last.result > 0

(***************************************************************************)
(* Properties of the cart returned by apply_coupon (CalcSpec)              *)
(***************************************************************************)
Applied == last.op = "apply" /\ last.resp.status = "ok"
AppliedType == Val(last.before).type

(* applicable_times of the applied bxgy coupon, as stated *)
AppliedTimes ==
    Min(StatedBuySets(last.cart, Val(last.before).details.buy_products),
        OrOne(Val(last.before).repetition_limit))

(* C7: in apply mode for a bxgy coupon with total_buy_sets > 0, for every  *)
(* get_products entry the returned cart holds a line for that product,     *)
(* created if the product was absent, whose quantity is the original cart  *)
(* quantity (0 if absent) plus entry.quantity * applicable_times, uncapped,*)
(* and whose discount is unit_price * entry.quantity * applicable_times.   *)
C7_FreeUnitsOnEveryGetLine ==
    (Applied /\ AppliedType = "bxgy") =>
        \A i \in 1..Len(Val(last.before).details.get_products) :
            LET g == Val(last.before).details.get_products[i]
                present == InCartMap(last.cart, g.product_id)
                original == IF present THEN CartMap(last.cart, g.product_id).quantity
                            ELSE 0
                free == g.quantity * AppliedTimes
            IN  \E j \in 1..Len(last.resp.items) :
                    /\ last.resp.items[j].product_id = g.product_id
                    /\ last.resp.items[j].quantity = original + free
                    /\ last.resp.items[j].total_discount
                         = Round2(last.resp.items[j].price * free)

(* C8: the subtotal of a returned cart is the sum of price * quantity over *)
(* the returned lines, with their increased quantities, for a bxgy coupon, *)
(* and the total of the unmodified input cart for a cart-wise or           *)
(* product-wise coupon (rounded to 2 decimals when returned).              *)
C8_SubtotalBase ==
    Applied =>
        /\ last.resp.raw_total =
              IF AppliedType = "bxgy" THEN LineSum(last.resp.items)
              ELSE LineSum(last.cart)
        /\ last.resp.total_price = Round2(last.resp.raw_total)

(* C8 witness: a bxgy apply that added free units, so that the two bases differ *)
C8_Witness ==
    /\ Applied
    /\ AppliedType = "bxgy"
    /\ LineSum(last.resp.items) > LineSum(last.cart)
    /\ last.resp.total_price = Round2(LineSum(last.resp.items))

(* C9 as stated: the returned final total equals the returned subtotal     *)
(* minus the returned total_discount exactly.                              *)
C9_FinalIsDifferenceOfReturned ==
    Applied =>
        last.resp.final_price = last.resp.total_price - last.resp.total_discount

(* C9 amended: the returned final total is the unrounded subtotal minus    *)
(* the unrounded total discount, rounded once to 2 decimals; it differs    *)
(* from the returned subtotal minus the returned total_discount by at most *)
(* one cent.                                                               *)
C9_FinalIsRoundedDifference ==
    Applied =>
        LET d == last.resp.final_price
                   - (last.resp.total_price - last.resp.total_discount)
        IN  /\ last.resp.final_price
                 = Round2(LineSum(last.resp.items) - last.resp.raw_discount)
            /\ d \in {0 - Cent, 0, Cent}

(* C9 witness: a returned cart whose three totals do not add up *)
C9_Witness ==
    /\ Applied
    /\ last.resp.final_price # last.resp.total_price - last.resp.total_discount
    /\ last.resp.final_price
         = Round2(LineSum(last.resp.items) - last.resp.raw_discount)

(* the sum of the discounts of the returned lines *)
LineDiscountSum(lines) ==
    SumOver(1..Len(lines), [i \in 1..Len(lines) |-> lines[i].total_discount])

Abs(x) == IF x < 0 THEN 0 - x ELSE x

(* r is x = num / den rounded to whole cents (a tie may go either way) *)
IsRoundedRatio(r, num, den) ==
    /\ r % Cent = 0
    /\ 2 * Abs(r * den - num) <= den * Cent

(* C11: in a successful cart-wise apply each returned line's discount is   *)
(* (line_total / cart_total) * total_discount rounded to 2 decimals, and   *)
(* the sum of the returned line discounts differs from the returned        *)
(* total_discount by at most 0.01 times the number of cart lines.          *)
C11_ProportionalDistribution ==
    (Applied /\ AppliedType = "cart-wise") =>
        /\ Len(last.resp.items) = Len(last.cart)
        /\ \A i \in 1..Len(last.cart) :
              /\ last.resp.items[i].product_id = last.cart[i].product_id
              /\ last.resp.items[i].quantity = last.cart[i].quantity
              /\ IsRoundedRatio(last.resp.items[i].total_discount,
                     last.cart[i].price * last.cart[i].quantity * last.resp.raw_discount,
                     LineSum(last.cart))
        /\ Abs(LineDiscountSum(last.resp.items) - last.resp.total_discount)
              <= Cent * Len(last.cart)

(* C11 witness: a cart-wise apply on two lines whose rounded line discounts *)
(* do not add up to the returned total_discount                            *)
C11_Witness ==
    /\ Applied
    /\ AppliedType = "cart-wise"
    /\ Len(last.cart) = 2
    /\ LineDiscountSum(last.resp.items) # last.resp.total_discount
    /\ Abs(LineDiscountSum(last.resp.items) - last.resp.total_discount) <= 2 * Cent

(* the index of the line cart_map holds for a product: the last such line *)
LookedUpLine(cart, pid) ==
    CHOOSE i \in 1..Len(cart) :
        /\ cart[i].product_id = pid
        /\ \A j \in 1..Len(cart) : cart[j].product_id = pid => j <= i

(* C12: in apply mode for a product-wise coupon, a target product absent   *)
(* from the cart is rejected as product not in cart; otherwise exactly one *)
(* returned line, the looked-up line of the target product (the last one   *)
(* if several lines hold that product), carries the discount price *       *)
(* quantity * discount / 100, every other line has discount 0, and         *)
(* total_discount is the sum of the returned line discounts.               *)
C12_ProductWiseSingleLine ==
    (last.op = "apply" /\ ~IsNone(last.before) /\ AppliedType = "product-wise") =>
        LET target == Val(last.before).details.product_id
            percent == Val(last.before).details.discount
        IN  IF ~InCartMap(last.cart, target)
            THEN last.resp.status = "Product not found in cart"
            ELSE LET k == LookedUpLine(last.cart, target)
                 IN  /\ last.resp.status = "ok"
                     /\ \A i \in 1..Len(last.resp.items) :
                           last.resp.items[i].total_discount =
                              IF i = k
                              THEN Round2((last.cart[k].price * last.cart[k].quantity
                                             * percent) \div 100)
                              ELSE 0
                     /\ last.resp.total_discount = LineDiscountSum(last.resp.items)

(* C17: every apply_coupon request that succeeds, and so consumes one use, *)
(* returns a cart whose total discount is strictly greater than 0, for all *)
(* three coupon types; a bxgy coupon whose buy condition is met but none   *)
(* of whose get products is in the cart does not succeed with discount 0.  *)
C17_SuccessfulApplyHasDiscount ==
    Applied =>
        /\ coupons[last.coupon_id].times_used = Val(last.before).times_used + 1
        /\ last.resp.raw_discount > 0

(***************************************************************************)
(* Properties of create_coupon and update_coupon (Spec)                    *)
(***************************************************************************)

(* C14: after any sequence of create_coupon and update_coupon requests,    *)
(* updates that change the type included, every stored coupon whose type   *)
(* is cart-wise or product-wise has repetition_limit = null.               *)
C14_OnlyBxgyHasLimit ==
    \A i \in DOMAIN coupons :
        coupons[i].type \in {"cart-wise", "product-wise"} =>
            IsNone(coupons[i].repetition_limit)

(* C15: after any sequence of create_coupon and update_coupon requests no  *)
(* two stored coupons have codes that are equal when compared without      *)
(* regard to case, so get_coupon_by_code matches at most one coupon.       *)
C15_CodesUniqueIgnoringCase ==
    /\ \A i, j \in DOMAIN coupons :
          i # j => Lower(coupons[i].code) # Lower(coupons[j].code)
    /\ \A code \in SpecCodes : Cardinality(get_coupon_by_code(code)) <= 1

(* the coupon fields an update request supplies *)
Supplied(update_data) ==
    DOMAIN update_data
      \cup (IF "details" \in DOMAIN update_data
               /\ "repition_limit" \in DOMAIN update_data.details
            THEN {"repetition_limit"} ELSE {})

(* C16: update_coupon changes only the fields supplied in the request:     *)
(* every field not supplied, repetition_limit when only details without a  *)
(* repetition limit are supplied and times_used included, keeps its value; *)
(* an update of a non-existent id or one rejected for a duplicate code     *)
(* changes nothing.                                                        *)
C16_UpdateChangesOnlySupplied ==
    [][\A i \in CouponIds, u \in SpecUpdates :
          UpdateCoupon(i, u) =>
             IF i \notin DOMAIN coupons \/ last'.status # "ok"
             THEN coupons' = coupons
             ELSE /\ DOMAIN coupons' = DOMAIN coupons
                  /\ \A j \in DOMAIN coupons \ {i} : coupons'[j] = coupons[j]
                  /\ \A f \in DOMAIN coupons[i] \ Supplied(u) :
                        coupons'[i][f] = coupons[i][f]]_vars

(***************************************************************************)
(* Properties of get_applicable_coupons (TimedSpec)                        *)
(***************************************************************************)

(* list holds exactly the coupons of store that are valid at time t and    *)
(* whose discount for cart is > 0, in the order of the store               *)
IsApplicableList(list, store, cart, t) ==
    LET ids == {i \in DOMAIN store :
                  /\ _is_coupon_valid(store[i], t)
                  /\ PreviewDiscount(store[i], cart) > 0}
    IN  /\ Len(list) = Cardinality(ids)
        /\ {list[k].coupon_id : k \in 1..Len(list)} = ids
        /\ \A k \in 1..Len(list) :
              /\ k > 1 => list[k - 1].coupon_id < list[k].coupon_id
              /\ list[k].type = store[list[k].coupon_id].type
              /\ list[k].discount = Round2(PreviewDiscount(store[list[k].coupon_id], cart))

(* C13 as stated: a preview leaves every stored coupon and the input cart  *)
(* unchanged, and two consecutive previews of the same cart with no        *)
(* mutation in between return identical lists, holding exactly the valid   *)
(* coupons whose discount is > 0 in storage order.                         *)
C13_ConsecutivePreviewsIdentical ==
    [][last'.op = "preview" =>
          /\ coupons' = coupons
          /\ IsApplicableList(last'.applicable, coupons, last'.cart, last'.at)
          /\ (last.op = "preview" /\ last.cart = last'.cart)
                => last'.applicable = last.applicable]_vars

(* C13 amended: a preview leaves every stored coupon and the input cart    *)
(* unchanged and returns exactly the coupons valid at the time of the call *)
(* whose discount is > 0, in storage order; two consecutive previews of    *)
(* the same cart with no mutation in between return identical lists when   *)
(* they are evaluated at the same clock time.                              *)
C13_PreviewsIdenticalAtSameTime ==
    [][last'.op = "preview" =>
          /\ coupons' = coupons
          /\ IsApplicableList(last'.applicable, coupons, last'.cart, last'.at)
          /\ (last.op = "preview" /\ last.cart = last'.cart /\ last.at = last'.at)
                => last'.applicable = last.applicable]_vars

(* C13 witness: a preview that lists a used coupon and leaves out a        *)
(* deactivated or expired one whose discount is > 0                        *)
C13_Witness ==
    /\ last.op = "preview"
    /\ last.at = now
    /\ \E k \in 1..Len(last.applicable) :
          /\ last.applicable[k].coupon_id \in DOMAIN coupons
          /\ coupons[last.applicable[k].coupon_id].times_used > 0
    /\ \E i \in DOMAIN coupons :
          /\ ~_is_coupon_valid(coupons[i], now)
          /\ PreviewDiscount(coupons[i], last.cart) > 0
    /\ IsApplicableList(last.applicable, coupons, last.cart, now)

=============================================================================
